---------------------------- MODULE Spec2Model ----------------------------
(***************************************************************************)
(* Model of the Aliyun SMS client (src/src/sms.ts, class AliSMS).          *)
(*                                                                         *)
(* A JavaScript string is modelled as the sequence of its UTF-16 code      *)
(* units (natural numbers); Str turns a TLA+ string literal of printable   *)
(* ASCII into that form.  A byte string is a sequence of 0..255.           *)
(*                                                                         *)
(* Three specifications share the module:                                  *)
(*   SpecSign  the signing primitives specParams and stringToSign applied  *)
(*             to bounded parameter maps,                                  *)
(*   SpecHmac  the method hmac applied to bounded (sign, secret) pairs,    *)
(*   Spec      one AliSMS instance with several sendSMS /                  *)
(*             querySendDetails calls in flight.                           *)
(***************************************************************************)
EXTENDS Integers, Sequences, FiniteSets

VARIABLES
    \* --- SpecSign ---
    sPc,          \* "start" | "canon" | "signed"
    sParams,      \* the parameter object: entries <<key, value>> in insertion order
    sParamsStr,   \* result of specParams
    sMethod,      \* method token given to stringToSign
    sStrToSign,   \* result of stringToSign
    \* --- SpecHmac ---
    hPc,          \* "start" | "await" | "done"
    hSign,        \* argument sign
    hSecret,      \* argument secret
    hKey,         \* key handed to the HMAC library
    hU,           \* the bytes u the library resolves with
    hOut,         \* the string hmac resolves with
    \* --- Spec: one AliSMS instance; the call-indexed variables are the
    \*     arguments and local variables of each call ---
    accessKeyID,      \* this.accessKeyID
    accessKeySecret,  \* this.accessKeySecret
    now,              \* the system clock, [day, ms]: days since 1970-01-01 and
                      \* milliseconds since midnight UTC
    ticks,            \* number of clock advances so far
    pc,               \* "idle" | "hmac" | "fetch" | "json" | "resolved" | "rejected"
    op,               \* "none" | "sendSMS" | "querySendDetails"
    args,             \* the arguments of the call
    calledAt,         \* the clock when the call was made
    nonce,            \* the value getNonce returned to the call
    paramsStr,        \* const paramsStr
    strToSign,        \* const strToSign
    signature,        \* const signature
    url,              \* const url, the URL given to fetch
    resp,             \* the body of const resp, as resp.json() read it
    outcome,          \* what the call returned or threw
    logged            \* whether the call wrote to console.error

signVars == <<sPc, sParams, sParamsStr, sMethod, sStrToSign>>
hmacVars == <<hPc, hSign, hSecret, hKey, hU, hOut>>

instVars == <<accessKeyID, accessKeySecret>>
clockVars == <<now, ticks>>
callVars == <<pc, op, args, calledAt, nonce, paramsStr, strToSign, signature, url,
              resp, outcome, logged>>
clientVars == <<instVars, clockVars, callVars>>

vars == <<signVars, hmacVars, clientVars>>

\* the parts of the state a specification does not use
SignOff ==
    /\ sPc = "off" /\ sParams = <<>> /\ sParamsStr = <<>>
    /\ sMethod = <<>> /\ sStrToSign = <<>>
HmacOff ==
    /\ hPc = "off" /\ hSign = <<>> /\ hSecret = <<>>
    /\ hKey = <<>> /\ hU = <<>> /\ hOut = <<>>
ClientOff ==
    /\ accessKeyID = <<>> /\ accessKeySecret = <<>>
    /\ now = <<>> /\ ticks = 0
    /\ pc = <<>> /\ op = <<>> /\ args = <<>> /\ calledAt = <<>> /\ nonce = <<>>
    /\ paramsStr = <<>> /\ strToSign = <<>> /\ signature = <<>> /\ url = <<>>
    /\ resp = <<>> /\ outcome = <<>> /\ logged = <<>>

---------------------------------------------------------------------------
(* Bounds *)

\* largest number of entries of a sampled parameter map
MaxParams == 2

\* largest length of a sampled string to sign
MaxSignLen == 2

\* number of calls made on the instance
NCalls == 2

\* number of times the clock advances
MaxTicks == 1

\* largest number of detail records in a sampled response
MaxDetails == 2

---------------------------------------------------------------------------
(* Strings *)

AsciiLo == " !\"#$%&'()*+,-./0123456789:;<=>?@ABCDEFGHIJKLMNOPQRSTUVWXYZ[\\]^_"
AsciiHi == "abcdefghijklmnopqrstuvwxyz{|}~"

\* code unit of each printable ASCII character (one-character TLA+ string)
CharCode ==
    [c \in {SubSeq(AsciiLo, i, i) : i \in 1..Len(AsciiLo)}
            \cup {SubSeq(AsciiHi, i, i) : i \in 1..Len(AsciiHi)} |->
        IF \E i \in 1..Len(AsciiLo) : SubSeq(AsciiLo, i, i) = c
        THEN 31 + (CHOOSE i \in 1..Len(AsciiLo) : SubSeq(AsciiLo, i, i) = c)
        ELSE 96 + (CHOOSE i \in 1..Len(AsciiHi) : SubSeq(AsciiHi, i, i) = c)]

\* the JavaScript string written as the TLA+ literal s
Str(s) == [i \in 1..Len(s) |-> CharCode[SubSeq(s, i, i)]]

\* concatenation of the strings ps[lo], ..., ps[hi]
RECURSIVE Concat(_, _, _)
Concat(ps, lo, hi) ==
    IF lo > hi THEN <<>>
    ELSE IF lo = hi THEN ps[lo]
    ELSE LET mid == (lo + hi) \div 2
         IN Concat(ps, lo, mid) \o Concat(ps, mid + 1, hi)

Min(S) == CHOOSE x \in S : \A y \in S : x <= y

\* String.prototype.substring(1)
Substring1(s) == SubSeq(s, 2, Len(s))

\* Array.prototype.join(sep) on an array of strings
Join(a, sep) ==
    Concat([i \in 1..Len(a) |-> IF i = 1 THEN a[i] ELSE sep \o a[i]], 1, Len(a))

\* decimal digits of a natural number
RECURSIVE Digits(_)
Digits(n) == IF n < 10 THEN <<48 + n>> ELSE Append(Digits(n \div 10), 48 + (n % 10))

\* Number.prototype.toString() of an integer
NumberToString(n) == IF n < 0 THEN <<45>> \o Digits(0 - n) ELSE Digits(n)

\* JavaScript values: strings, integer numbers, arrays, objects, undefined
StrVal(s) == [t |-> "str", s |-> s]
NumVal(n) == [t |-> "num", n |-> n]
ArrVal(a) == [t |-> "arr", a |-> a]
ObjVal(o) == [t |-> "obj", o |-> o]
Undefined == [t |-> "undefined"]

\* String(v) for the value kinds the client puts into a parameter object:
\* a string, an integer number, an array (its elements joined by ",")
RECURSIVE StringOf(_)
StringOf(v) ==
    CASE v.t = "str" -> v.s
      [] v.t = "num" -> NumberToString(v.n)
      [] v.t = "arr" -> Join([i \in 1..Len(v.a) |-> StringOf(v.a[i])], <<44>>)

\* the value of the property f of v (undefined when v has none)
Prop(v, f) == IF v.t = "obj" /\ f \in DOMAIN v.o THEN v.o[f] ELSE Undefined

\* ToBoolean of a string or undefined
Truthy(v) == v.t = "str" /\ v.s # <<>>

---------------------------------------------------------------------------
(* encodeURIComponent (ECMAScript Encode with the uriUnescaped set) *)

IsAlpha(c) == (c >= 65 /\ c <= 90) \/ (c >= 97 /\ c <= 122)
IsDigit(c) == c >= 48 /\ c <= 57

\* uriUnescaped: letters, digits and  - _ . ! ~ * ' ( )
UriMark == {45, 95, 46, 33, 126, 42, 39, 40, 41}
IsUriUnescaped(c) == IsAlpha(c) \/ IsDigit(c) \/ c \in UriMark

IsHighSurrogate(c) == c >= 55296 /\ c <= 56319
IsLowSurrogate(c) == c >= 56320 /\ c <= 57343

\* a string without lone surrogates; encodeURIComponent throws URIError otherwise
IsWellFormed(s) ==
    \A i \in 1..Len(s) :
        /\ IsHighSurrogate(s[i]) => (i < Len(s) /\ IsLowSurrogate(s[i + 1]))
        /\ IsLowSurrogate(s[i]) => (i > 1 /\ IsHighSurrogate(s[i - 1]))

\* UTF-8 bytes of a code point
Utf8CodePoint(cp) ==
    IF cp < 128 THEN <<cp>>
    ELSE IF cp < 2048 THEN <<192 + (cp \div 64), 128 + (cp % 64)>>
    ELSE IF cp < 65536
         THEN <<224 + (cp \div 4096), 128 + ((cp \div 64) % 64), 128 + (cp % 64)>>
    ELSE <<240 + (cp \div 262144), 128 + ((cp \div 4096) % 64),
           128 + ((cp \div 64) % 64), 128 + (cp % 64)>>

\* UTF-8 bytes contributed by the code unit at position i of a well-formed string
Utf8At(s, i) ==
    IF IsLowSurrogate(s[i]) THEN <<>>
    ELSE IF IsHighSurrogate(s[i])
         THEN Utf8CodePoint(65536 + (s[i] - 55296) * 1024 + (s[i + 1] - 56320))
    ELSE Utf8CodePoint(s[i])

\* TextEncoder.encode: the UTF-8 bytes of a well-formed string
Utf8(s) == Concat([i \in 1..Len(s) |-> Utf8At(s, i)], 1, Len(s))

HexDigits == Str("0123456789ABCDEF")
PercentByte(b) == <<37, HexDigits[(b \div 16) + 1], HexDigits[(b % 16) + 1]>>
PercentBytes(bs) == Concat([i \in 1..Len(bs) |-> PercentByte(bs[i])], 1, Len(bs))

encodeURIComponent(s) ==
    Concat([i \in 1..Len(s) |->
               IF IsUriUnescaped(s[i]) THEN <<s[i]>>
               ELSE PercentBytes(Utf8At(s, i))], 1, Len(s))

---------------------------------------------------------------------------
(* specParams and stringToSign *)

KeyOf(e) == e[1]
ValueOf(e) == e[2]

\* a canonical array index: "0" or decimal digits without leading zero
\* (below 2^32 - 1; the sampled keys are short)
IsArrayIndex(k) ==
    /\ Len(k) >= 1 /\ Len(k) <= 9
    /\ \A i \in 1..Len(k) : IsDigit(k[i])
    /\ (Len(k) > 1 => k[1] # 48)

RECURSIVE IndexValue(_)
IndexValue(k) ==
    IF Len(k) = 0 THEN 0
    ELSE 10 * IndexValue(SubSeq(k, 1, Len(k) - 1)) + (k[Len(k)] - 48)

\* s1 precedes s2 in UTF-16 code unit order (the default order of
\* Array.prototype.sort)
CodeUnitLess(s1, s2) ==
    LET n == IF Len(s1) < Len(s2) THEN Len(s1) ELSE Len(s2)
        d == {i \in 1..n : s1[i] # s2[i]}
    IN IF d = {} THEN Len(s1) < Len(s2)
       ELSE s1[Min(d)] < s2[Min(d)]

\* insertion of k into the sorted sequence ks
RECURSIVE InsertSorted(_, _)
InsertSorted(ks, k) ==
    IF ks = <<>> THEN <<k>>
    ELSE IF CodeUnitLess(k, Head(ks)) THEN <<k>> \o ks
    ELSE <<Head(ks)>> \o InsertSorted(Tail(ks), k)

\* a sort by locale-style collation: letters compared without regard to case
\* first (used to show that the ordering claims depend on Sort)
FoldCase(s) == [i \in 1..Len(s) |-> IF s[i] >= 97 /\ s[i] <= 122 THEN s[i] - 32 ELSE s[i]]
RECURSIVE InsertCollated(_, _)
InsertCollated(ks, k) ==
    IF ks = <<>> THEN <<k>>
    ELSE IF CodeUnitLess(FoldCase(k), FoldCase(Head(ks)))
            \/ (FoldCase(k) = FoldCase(Head(ks)) /\ CodeUnitLess(Head(ks), k))
         THEN <<k>> \o ks
    ELSE <<Head(ks)>> \o InsertCollated(Tail(ks), k)
RECURSIVE SortCollated(_)
SortCollated(ks) ==
    IF ks = <<>> THEN <<>>
    ELSE InsertCollated(SortCollated(SubSeq(ks, 1, Len(ks) - 1)), ks[Len(ks)])

\* Array.prototype.sort() without comparator
RECURSIVE Sort(_)
Sort(ks) ==
    IF ks = <<>> THEN <<>>
    ELSE InsertSorted(Sort(SubSeq(ks, 1, Len(ks) - 1)), ks[Len(ks)])

\* Object.keys: array-index keys in ascending numeric order, then the other
\* keys in insertion order
ObjectKeys(params) ==
    LET keys == [i \in 1..Len(params) |-> KeyOf(params[i])]
        idx == SelectSeq(keys, IsArrayIndex)
        oth == SelectSeq(keys, LAMBDA k : ~IsArrayIndex(k))
        rank(k) == Cardinality({j \in 1..Len(idx) : IndexValue(idx[j]) < IndexValue(k)})
    IN [i \in 1..Len(idx) |->
           idx[CHOOSE j \in 1..Len(idx) : rank(idx[j]) = i - 1]] \o oth

\* params[k]
Get(params, k) ==
    ValueOf(params[CHOOSE i \in 1..Len(params) : KeyOf(params[i]) = k])

SignatureKey == Str("Signature")

\* specParams without the test v !== 'Signature'
specParamsKeepSignature(params) ==
    LET keysSorted == Sort(ObjectKeys(params))
        sign == Concat([i \in 1..Len(keysSorted) |->
                    <<38>> \o keysSorted[i] \o <<61>>
                    \o encodeURIComponent(StringOf(Get(params, keysSorted[i])))],
                    1, Len(keysSorted))
    IN Substring1(sign)

specParams(params) ==
    LET keysSorted == Sort(ObjectKeys(params))
        sign == Concat([i \in 1..Len(keysSorted) |->
                    IF keysSorted[i] # SignatureKey
                    THEN <<38>> \o keysSorted[i] \o <<61>>
                         \o encodeURIComponent(StringOf(Get(params, keysSorted[i])))
                    ELSE <<>>], 1, Len(keysSorted))
    IN Substring1(sign)

SlashPart == Str("&%2F&")

\* stringToSign without the second encoding
stringToSignPlain(method, q) ==
    method \o SlashPart \o q

stringToSign(method, q) ==
    method \o SlashPart \o encodeURIComponent(q)

---------------------------------------------------------------------------
(* HMAC-SHA1 (FIPS 180-4, RFC 2104) and base64, the library calls of hmac. *)
(* A 32-bit word is a pair <<high, low>> of 16-bit halves.                  *)

RECURSIVE BitXor(_, _)
BitXor(a, b) ==
    IF a = 0 THEN b
    ELSE IF b = 0 THEN a
    ELSE ((a + b) % 2) + 2 * BitXor(a \div 2, b \div 2)

RECURSIVE BitAnd(_, _)
BitAnd(a, b) ==
    IF a = 0 \/ b = 0 THEN 0
    ELSE ((a % 2) * (b % 2)) + 2 * BitAnd(a \div 2, b \div 2)

BitOr(a, b) == a + b - BitAnd(a, b)

WordXor(a, b) == <<BitXor(a[1], b[1]), BitXor(a[2], b[2])>>
WordAnd(a, b) == <<BitAnd(a[1], b[1]), BitAnd(a[2], b[2])>>
WordOr(a, b) == <<BitOr(a[1], b[1]), BitOr(a[2], b[2])>>
WordNot(a) == <<65535 - a[1], 65535 - a[2]>>

\* addition modulo 2^32
WordAdd(a, b) ==
    LET lo == a[2] + b[2]
        hi == a[1] + b[1] + (lo \div 65536)
    IN <<hi % 65536, lo % 65536>>

\* rotation to the left by n bits, 0 < n < 32
RotateLeft(a, n) ==
    LET w == IF n >= 16 THEN <<a[2], a[1]>> ELSE a
        k == n % 16
    IN IF k = 0 THEN w
       ELSE <<((w[1] * (2 ^ k)) % 65536) + (w[2] \div (2 ^ (16 - k))),
              ((w[2] * (2 ^ k)) % 65536) + (w[1] \div (2 ^ (16 - k)))>>

\* the message followed by 0x80, zero bytes and its length in bits as a
\* 64-bit big-endian number, a multiple of 64 bytes in all
Sha1Pad(m) ==
    LET l == Len(m)
        z == (119 - (l % 64)) % 64
        bits == l * 8
    IN m \o <<128>> \o [i \in 1..z |-> 0] \o <<0, 0, 0, 0>>
         \o <<(bits \div 16777216) % 256, (bits \div 65536) % 256,
              (bits \div 256) % 256, bits % 256>>

\* the sixteen big-endian words of block b (from 0) of the padded message p
BlockWords(p, b) ==
    [i \in 1..16 |->
        LET o == 64 * b + 4 * (i - 1)
        IN <<p[o + 1] * 256 + p[o + 2], p[o + 3] * 256 + p[o + 4]>>]

\* the one element of a set of one element: with it a value is computed once
\* and then named
The(S) == CHOOSE x \in S : TRUE

\* word t (from 0) of the message schedule, from the words w before it
ScheduleWord(w) ==
    RotateLeft(WordXor(WordXor(w[Len(w) - 2], w[Len(w) - 7]),
                       WordXor(w[Len(w) - 13], w[Len(w) - 15])), 1)

\* the message schedule extended to n words
RECURSIVE Schedule(_, _)
Schedule(w, n) ==
    IF Len(w) >= n THEN w
    ELSE The({Schedule(Append(w, x), n) : x \in {ScheduleWord(w)}})

Sha1F(t, b, c, d) ==
    IF t < 20 THEN WordOr(WordAnd(b, c), WordAnd(WordNot(b), d))
    ELSE IF t < 40 THEN WordXor(WordXor(b, c), d)
    ELSE IF t < 60 THEN WordOr(WordOr(WordAnd(b, c), WordAnd(b, d)), WordAnd(c, d))
    ELSE WordXor(WordXor(b, c), d)

\* 5A827999, 6ED9EBA1, 8F1BBCDC, CA62C1D6
Sha1K(t) ==
    IF t < 20 THEN <<23170, 31129>>
    ELSE IF t < 40 THEN <<28377, 60321>>
    ELSE IF t < 60 THEN <<36635, 48348>>
    ELSE <<51810, 49622>>

\* round t on the working variables s = <<a, b, c, d, e>>
Round(t, s, w) ==
    <<WordAdd(WordAdd(WordAdd(WordAdd(RotateLeft(s[1], 5),
          Sha1F(t, s[2], s[3], s[4])), s[5]), Sha1K(t)), w[t + 1]),
      s[1], RotateLeft(s[2], 30), s[3], s[4]>>

\* rounds t .. e-1
RECURSIVE Rounds(_, _, _, _)
Rounds(t, e, s, w) ==
    IF t = e THEN s
    ELSE The({Rounds(t + 1, e, n, w) : n \in {Round(t, s, w)}})

\* the 80 words of the message schedule of a block of 16 words,
\* 16 words at a time
FullSchedule(blk) ==
    The({The({The({Schedule(w3, 80) : w3 \in {Schedule(w2, 64)}})
              : w2 \in {Schedule(w1, 48)}})
         : w1 \in {Schedule(blk, 32)}})

\* the 80 rounds, 20 at a time
AllRounds(h, w) ==
    The({The({The({Rounds(60, 80, s3, w) : s3 \in {Rounds(40, 60, s2, w)}})
              : s2 \in {Rounds(20, 40, s1, w)}})
         : s1 \in {Rounds(0, 20, h, w)}})

\* the compression function on the hash value h and one block of 16 words
Compress(h, blk) ==
    The({The({<<WordAdd(h[1], s[1]), WordAdd(h[2], s[2]), WordAdd(h[3], s[3]),
                WordAdd(h[4], s[4]), WordAdd(h[5], s[5])>>
              : s \in {AllRounds(h, w)}})
         : w \in {FullSchedule(blk)}})

\* 67452301, EFCDAB89, 98BADCFE, 10325476, C3D2E1F0
Sha1Init ==
    <<<<26437, 8961>>, <<61389, 43913>>, <<39098, 56574>>, <<4146, 21622>>,
      <<50130, 57840>>>>

RECURSIVE Sha1Blocks(_, _, _)
Sha1Blocks(h, p, b) ==
    IF 64 * b >= Len(p) THEN h
    ELSE The({Sha1Blocks(n, p, b + 1) : n \in {Compress(h, BlockWords(p, b))}})

\* the 20 bytes of SHA-1 of the byte string m
Sha1(m) ==
    The({[i \in 1..20 |->
            IF i % 2 = 1
            THEN h[((i - 1) \div 4) + 1][(((i - 1) % 4) \div 2) + 1] \div 256
            ELSE h[((i - 1) \div 4) + 1][(((i - 1) % 4) \div 2) + 1] % 256]
         : h \in {Sha1Blocks(Sha1Init, The({Sha1Pad(m)}), 0)}})

\* the key of HMAC filled to the block size of 64 bytes
HmacBlockKey(k) ==
    IF Len(k) > 64 THEN Sha1(k) \o [i \in 1..44 |-> 0]
    ELSE k \o [i \in 1..(64 - Len(k)) |-> 0]

\* HMAC with SHA-1 of message m under key k, both byte strings
HmacSha1(k, m) ==
    The({The({Sha1([i \in 1..64 |-> BitXor(k0[i], 92)] \o [i \in 1..20 |-> inner[i]])
              : inner \in {Sha1([i \in 1..64 |-> BitXor(k0[i], 54)] \o m)}})
         : k0 \in {HmacBlockKey(k)}})

Base64Alphabet ==
    Str("ABCDEFGHIJKLMNOPQRSTUVWXYZabcdefghijklmnopqrstuvwxyz0123456789+/")

\* encode of std/encoding/base64: standard alphabet, "=" padding
encode(u) ==
    LET n == Len(u)
        byte(i) == IF i <= n THEN u[i] ELSE 0
        group(g) ==
            LET b1 == byte(3 * g - 2)
                b2 == byte(3 * g - 1)
                b3 == byte(3 * g)
            IN <<Base64Alphabet[(b1 \div 4) + 1],
                 Base64Alphabet[((b1 % 4) * 16 + (b2 \div 16)) + 1],
                 IF 3 * g - 1 <= n
                 THEN Base64Alphabet[((b2 % 16) * 4 + (b3 \div 64)) + 1] ELSE 61,
                 IF 3 * g <= n THEN Base64Alphabet[(b3 % 64) + 1] ELSE 61>>
    IN Concat([g \in 1..((n + 2) \div 3) |-> group(g)], 1, (n + 2) \div 3)

secretSuffix == Str("&")

\* the key without the suffix
HmacKeyBare(secret) == secret

\* the key given to the library: secret + secretSuffix
HmacKey(secret) == secret \o secretSuffix

\* AliSMS.hmac: base64 of HMAC-SHA1 of sign under the key
hmac(sign, secret) == encode(HmacSha1(Utf8(HmacKey(secret)), Utf8(sign)))

---------------------------------------------------------------------------
(* SpecSign: the signing primitives on bounded parameter maps *)

GET == Str("GET")
POST == Str("POST")
Methods == {GET, POST}

KeySamples ==
    {SignatureKey, Str("SignatureNonce"), Str("Z"), Str("a"), Str("10"), Str("9")}

ValueSamples ==
    {StrVal(<<>>), StrVal(Str("a b+c%=&:/,")), StrVal(Str("-_.~Az09*!'()")),
     StrVal(<<233, 39640, 55357, 56832>>),
     NumVal(20220812), ArrVal(<<StrVal(Str("1381")), StrVal(Str("1392"))>>)}

\* the parameter object of the reference test (testStringToSign)
ReferenceParams ==
    << <<Str("Action"), StrVal(Str("DescribeDedicatedHosts"))>>,
       <<Str("AccessKeyId"), StrVal(Str("testid"))>>,
       <<Str("SignatureMethod"), StrVal(Str("HMAC-SHA1"))>>,
       <<Str("SignatureVersion"), StrVal(Str("1.0"))>>,
       <<Str("SignatureNonce"), StrVal(Str("3ee8c1b8-xxxx-xxxx-xxxx-xxxxxxxxx"))>>,
       <<Str("Timestamp"), StrVal(Str("2016-02-23T12:46:24Z"))>>,
       <<Str("Version"), StrVal(Str("2014-05-26"))>>,
       <<Str("Format"), StrVal(Str("XML"))>> >>

\* objects of at most MaxParams entries: distinct keys, any insertion order
ParamObjects ==
    UNION {
        {p \in [1..n -> KeySamples \X ValueSamples] :
            \A i, j \in 1..n : i # j => KeyOf(p[i]) # KeyOf(p[j])}
        : n \in 0..MaxParams}

InitSign ==
    /\ sPc = "start"
    /\ sParams \in ParamObjects \cup {ReferenceParams}
    /\ sParamsStr = <<>>
    /\ sMethod = <<>>
    /\ sStrToSign = <<>>
    /\ HmacOff
    /\ ClientOff

\* const paramsStr = sms.specParams(params)
SpecParamsCall ==
    /\ sPc = "start"
    /\ sParamsStr' = specParams(sParams)
    /\ sPc' = "canon"
    /\ UNCHANGED <<sParams, sMethod, sStrToSign, hmacVars, clientVars>>

\* const res = sms.stringToSign(method, paramsStr)
StringToSignCall(m) ==
    /\ sPc = "canon"
    /\ sMethod' = m
    /\ sStrToSign' = stringToSign(m, sParamsStr)
    /\ sPc' = "signed"
    /\ UNCHANGED <<sParams, sParamsStr, hmacVars, clientVars>>

NextSign ==
    \/ SpecParamsCall
    \/ \E m \in Methods : StringToSignCall(m)

SpecSign == InitSign /\ [][NextSign]_vars


---------------------------------------------------------------------------
(* Reading a canonical query string back (used by the properties only) *)

\* the positions of ch in s, ascending
PositionsOf(s, ch) ==
    LET P == {i \in 1..Len(s) : s[i] = ch}
    IN [j \in 1..Cardinality(P) |->
           CHOOSE i \in P : Cardinality({k \in P : k < i}) = j - 1]

\* String.prototype.split(ch)
Split(s, ch) ==
    LET cuts == <<0>> \o PositionsOf(s, ch) \o <<Len(s) + 1>>
    IN [j \in 1..(Len(cuts) - 1) |-> SubSeq(s, cuts[j] + 1, cuts[j + 1] - 1)]

\* the key=value pairs of a query string
PairsOf(q) == IF q = <<>> THEN <<>> ELSE Split(q, 38)
PairKey(p) ==
    LET e == {i \in 1..Len(p) : p[i] = 61}
    IN IF e = {} THEN p ELSE SubSeq(p, 1, Min(e) - 1)
PairValue(p) ==
    LET e == {i \in 1..Len(p) : p[i] = 61}
    IN IF e = {} THEN <<>> ELSE SubSeq(p, Min(e) + 1, Len(p))

HexValue(c) == IF IsDigit(c) THEN c - 48 ELSE IF c >= 65 /\ c <= 70 THEN c - 55 ELSE -1

\* percent-decoding of an ASCII string (every "%" starts an escape "%HH")
PercentDecode(s) ==
    Concat([i \in 1..Len(s) |->
               IF s[i] = 37
               THEN IF i + 2 <= Len(s)
                    THEN <<16 * HexValue(s[i + 1]) + HexValue(s[i + 2])>>
                    ELSE <<-1>>
               ELSE IF (i > 1 /\ s[i - 1] = 37) \/ (i > 2 /\ s[i - 2] = 37)
                    THEN <<>>
               ELSE <<s[i]>>], 1, Len(s))

\* number of occurrences of the string t in s
Occurrences(s, t) ==
    Cardinality({i \in 1..(Len(s) - Len(t) + 1) : SubSeq(s, i, i + Len(t) - 1) = t})

\* k1 comes strictly before k2 by code unit value
OrdinalBefore(k1, k2) ==
    \/ /\ Len(k1) < Len(k2)
       /\ SubSeq(k2, 1, Len(k1)) = k1
    \/ \E i \in 1..Len(k1) :
          /\ i <= Len(k2)
          /\ SubSeq(k1, 1, i - 1) = SubSeq(k2, 1, i - 1)
          /\ k1[i] < k2[i]

\* the object with the entries at positions i and j exchanged
SwapEntries(p, i, j) ==
    [k \in 1..Len(p) |-> IF k = i THEN p[j] ELSE IF k = j THEN p[i] ELSE p[k]]
ReverseEntries(p) == [k \in 1..Len(p) |-> p[Len(p) + 1 - k]]

KeySetOf(params) == {KeyOf(params[i]) : i \in 1..Len(params)}

---------------------------------------------------------------------------
(* Properties of the signing primitives (SpecSign) *)

\* expected string-to-sign of the reference test (sms.test.ts, testStringToSign)
ReferenceStringToSign ==
    Str("GET&%2F&AccessKeyId%3Dtestid%26Action%3DDescribeDedicatedHosts%26Format%3DXML%26SignatureMethod%3DHMAC-SHA1%26SignatureNonce%3D3ee8c1b8-xxxx-xxxx-xxxx-xxxxxxxxx%26SignatureVersion%3D1.0%26Timestamp%3D2016-02-23T12%253A46%253A24Z%26Version%3D2014-05-26")

\* C1: stringToSign(m, q) is m, then "&%2F&", then q percent-encoded as one
\* opaque value: the remainder contains no raw "=" or "&", decodes back to q,
\* holds one "%25" per "%" of q, one "%3D" per "=" and one "%26" per "&";
\* for the reference parameters and GET it is the reference string.
C1_StringToSignFormat ==
    sPc = "signed" =>
        LET n == Len(sMethod)
            rest == SubSeq(sStrToSign, n + 6, Len(sStrToSign))
        IN /\ SubSeq(sStrToSign, 1, n) = sMethod
           /\ SubSeq(sStrToSign, n + 1, n + 5) = <<38, 37, 50, 70, 38>>
           /\ \A i \in 1..Len(rest) : rest[i] # 61 /\ rest[i] # 38
           /\ PercentDecode(rest) = sParamsStr
           /\ Occurrences(rest, <<37, 50, 53>>) = Occurrences(sParamsStr, <<37>>)
           /\ Occurrences(rest, <<37, 51, 68>>) = Occurrences(sParamsStr, <<61>>)
           /\ Occurrences(rest, <<37, 50, 54>>) = Occurrences(sParamsStr, <<38>>)
           /\ (sParams = ReferenceParams /\ sMethod = GET
                 => sStrToSign = ReferenceStringToSign)

C1_Witness ==
    /\ sPc = "signed"
    /\ sParams = ReferenceParams
    /\ sMethod = GET
    /\ Occurrences(sParamsStr, <<37>>) = 2
    /\ sStrToSign = ReferenceStringToSign

\* C3: specParams gives the same string for every insertion order of the same
\* entries, and the keys of its pairs are in strictly ascending code unit order.
C3_OrderIndependent ==
    sPc # "start" =>
        LET pairs == PairsOf(sParamsStr)
        IN /\ \A i, j \in 1..Len(sParams) :
                 specParams(SwapEntries(sParams, i, j)) = sParamsStr
           /\ specParams(ReverseEntries(sParams)) = sParamsStr
           /\ \A i \in 1..(Len(pairs) - 1) :
                 OrdinalBefore(PairKey(pairs[i]), PairKey(pairs[i + 1]))

\* two keys inserted in descending order, upper case "Z" after lower case "a"
C3_Witness ==
    /\ sPc = "canon"
    /\ Len(sParams) = 2
    /\ KeyOf(sParams[1]) = Str("a")
    /\ KeyOf(sParams[2]) = Str("Z")
    /\ PairKey(PairsOf(sParamsStr)[1]) = Str("Z")
    /\ PairKey(PairsOf(sParamsStr)[2]) = Str("a")

\* C4: the result of specParams has no pair whose key is Signature, has every
\* other key of the object exactly once, has no leading "&", and is empty for
\* an object that is empty or holds only Signature.
C4_SignatureExcluded ==
    sPc # "start" =>
        LET pairs == PairsOf(sParamsStr)
            kept == KeySetOf(sParams) \ {SignatureKey}
        IN /\ \A i \in 1..Len(pairs) : PairKey(pairs[i]) # SignatureKey
           /\ {PairKey(pairs[i]) : i \in 1..Len(pairs)} = kept
           /\ Len(pairs) = Cardinality(kept)
           /\ (sParamsStr # <<>> => sParamsStr[1] # 38)
           /\ (kept = {} => sParamsStr = <<>>)

\* an object holding Signature and one more key
C4_Witness ==
    /\ sPc = "canon"
    /\ Len(sParams) = 2
    /\ SignatureKey \in KeySetOf(sParams)
    /\ Len(PairsOf(sParamsStr)) = 1
    /\ PairKey(PairsOf(sParamsStr)[1]) = Str("SignatureNonce")

\* RFC 3986 unreserved: letters, digits, "-", ".", "_", "~"
IsRfc3986Unreserved(c) == IsAlpha(c) \/ IsDigit(c) \/ c \in {45, 46, 95, 126}

\* C5: in the value part of every pair of the result of specParams each
\* character is an RFC 3986 unreserved character or belongs to an escape
\* "%HH"; "*", "+" and space never appear raw.
C5_OnlyUnreservedRaw ==
    sPc # "start" =>
        LET pairs == PairsOf(sParamsStr)
        IN \A i \in 1..Len(pairs) :
              LET v == PairValue(pairs[i])
              IN \A j \in 1..Len(v) :
                    /\ IsRfc3986Unreserved(v[j]) \/ v[j] = 37
                    /\ v[j] = 37 => /\ j + 2 <= Len(v)
                                    /\ HexValue(v[j + 1]) >= 0
                                    /\ HexValue(v[j + 2]) >= 0


---------------------------------------------------------------------------
(* SpecHmac: the method hmac on bounded arguments *)

SignAlphabet == {71, 38, 37}

\* the strings over SignAlphabet of length at most MaxSignLen, the reference
\* string to sign and a string outside ASCII
SignSamples ==
    UNION {[1..n -> SignAlphabet] : n \in 0..MaxSignLen}
      \cup {ReferenceStringToSign, <<233, 39640, 55357, 56832>>}

\* the secret of the reference test, the empty secret, a one-character
\* secret, a secret longer than one SHA-1 block, a secret outside ASCII
SecretSamples ==
    {Str("testsecret"), <<>>, Str("k"), [i \in 1..70 |-> 97], <<39640, 36828>>}

InitHmac ==
    /\ hPc = "start"
    /\ hSign \in SignSamples
    /\ hSecret \in SecretSamples
    /\ hKey = <<>>
    /\ hU = <<>>
    /\ hOut = <<>>
    /\ SignOff
    /\ ClientOff

\* hmac up to the await: the library is called with s: secret + secretSuffix
HmacCall ==
    /\ hPc = "start"
    /\ hKey' = HmacKey(hSecret)
    /\ hPc' = "await"
    /\ UNCHANGED <<hSign, hSecret, hU, hOut, signVars, clientVars>>

\* the library resolves with u; hmac returns encode(u)
HmacResume ==
    /\ hPc = "await"
    /\ hU' = HmacSha1(Utf8(hKey), Utf8(hSign))
    /\ hOut' = encode(hU')
    /\ hPc' = "done"
    /\ UNCHANGED <<hSign, hSecret, hKey, signVars, clientVars>>

NextHmac == HmacCall \/ HmacResume

SpecHmac == InitHmac /\ [][NextHmac]_vars

\* the value of a base64 character, -1 for a character outside the alphabet
Base64Value(c) ==
    IF c >= 65 /\ c <= 90 THEN c - 65
    ELSE IF c >= 97 /\ c <= 122 THEN c - 71
    ELSE IF IsDigit(c) THEN c + 4
    ELSE IF c = 43 THEN 62
    ELSE IF c = 47 THEN 63
    ELSE -1

\* the bytes a padded base64 string stands for
Base64Decode(s) ==
    LET group(g) ==
            LET c1 == Base64Value(s[4 * g - 3])
                c2 == Base64Value(s[4 * g - 2])
                c3 == Base64Value(s[4 * g - 1])
                c4 == Base64Value(s[4 * g])
            IN IF s[4 * g - 1] = 61 THEN <<c1 * 4 + (c2 \div 16)>>
               ELSE IF s[4 * g] = 61
                    THEN <<c1 * 4 + (c2 \div 16), (c2 % 16) * 16 + (c3 \div 4)>>
               ELSE <<c1 * 4 + (c2 \div 16), (c2 % 16) * 16 + (c3 \div 4),
                      (c3 % 4) * 64 + c4>>
    IN Concat([g \in 1..(Len(s) \div 4) |-> group(g)], 1, Len(s) \div 4)

\* expected signature of the reference test (sms.test.ts, testSignature)
ReferenceSecret == Str("testsecret")
ReferenceSignature == Str("rARsF+BIg8pZ4e0ln6Z96lBMDms=")

\* C2: hmac signs under the key secret + "&" and returns the padded standard
\* base64 form of the 20 digest bytes (28 characters, the last one "=", which
\* decode to the digest); for the reference string to sign and the secret
\* testsecret the result is rARsF+BIg8pZ4e0ln6Z96lBMDms=.
C2_HmacBase64 ==
    /\ hPc \in {"await", "done"} =>
          /\ Len(hKey) = Len(hSecret) + 1
          /\ SubSeq(hKey, 1, Len(hSecret)) = hSecret
          /\ hKey[Len(hKey)] = 38
    /\ hPc = "done" =>
          /\ Len(hU) = 20
          /\ \A i \in 1..20 : hU[i] \in 0..255
          /\ Len(hOut) = 28
          /\ \A i \in 1..27 : Base64Value(hOut[i]) >= 0
          /\ hOut[28] = 61
          /\ Base64Decode(hOut) = hU
          /\ (hSign = ReferenceStringToSign /\ hSecret = ReferenceSecret
                => hOut = ReferenceSignature)

C2_Witness ==
    /\ hPc = "done"
    /\ hSign = ReferenceStringToSign
    /\ hSecret = ReferenceSecret
    /\ hOut = ReferenceSignature


---------------------------------------------------------------------------
(* Date.prototype.toISOString and getNowISOTime *)

MsPerDay == 24 * 60 * 60 * 1000

\* decimal digits of n, padded with zeros to a width of w
RECURSIVE ZeroPad(_, _)
ZeroPad(n, w) == IF w = 0 THEN <<>> ELSE Append(ZeroPad(n \div 10, w - 1), 48 + (n % 10))

\* year, month and day of the day number d (days since 1970-01-01),
\* proleptic Gregorian calendar
CivilFromDays(d) ==
    LET z == d + 719468
        era == z \div 146097
        doe == z - era * 146097
        yoe == (doe - (doe \div 1460) + (doe \div 36524) - (doe \div 146096)) \div 365
        doy == doe - (365 * yoe + (yoe \div 4) - (yoe \div 100))
        mp == (5 * doy + 2) \div 153
        day == doy - ((153 * mp + 2) \div 5) + 1
        month == IF mp < 10 THEN mp + 3 ELSE mp - 9
        year == yoe + era * 400 + (IF month <= 2 THEN 1 ELSE 0)
    IN <<year, month, day>>

\* YYYY-MM-DDTHH:mm:ss.sssZ (years 0 to 9999)
toISOString(t) ==
    LET ymd == CivilFromDays(t.day)
    IN ZeroPad(ymd[1], 4) \o <<45>> \o ZeroPad(ymd[2], 2) \o <<45>> \o ZeroPad(ymd[3], 2)
         \o <<84>> \o ZeroPad(t.ms \div 3600000, 2)
         \o <<58>> \o ZeroPad((t.ms \div 60000) % 60, 2)
         \o <<58>> \o ZeroPad((t.ms \div 1000) % 60, 2)
         \o <<46>> \o ZeroPad(t.ms % 1000, 3) \o <<90>>

\* the time without the fraction of a second: YYYY-MM-DDTHH:mm:ssZ
ISOSeconds(t) ==
    SubSeq(toISOString(t), 1, 19) \o <<90>>

\* the time at clock value t to the second
getNowISOTimeSeconds(t) == ISOSeconds(t)

\* new Date(new Date().getTime()).toISOString() at clock value t
getNowISOTime(t) == toISOString(t)

---------------------------------------------------------------------------
(* The AliSMS instance and its two operations *)

format == Str("JSON")
version == Str("2017-05-25")
signatureMethod == Str("HMAC-SHA1")
signatureVersion == Str("1.0")
endPoint == Str("https://dysmsapi.aliyuncs.com")

\* the arguments of new AliSMS(accessKeyID, accessKeySecret)
CtorAccessKeyID == Str("testid")
CtorAccessKeySecret == Str("testsecret")

Calls == 1..NCalls

\* the clock at construction, 2016-02-23T12:46:24.000Z, and the amount of one
\* advance, 11:13:36.789 (into the next day)
StartClock == [day |-> 16854, ms |-> ((12 * 60 + 46) * 60 + 24) * 1000]
TickStep == ((11 * 60 + 13) * 60 + 36) * 1000 + 789
ClockAfter(t) ==
    [day |-> t.day + ((t.ms + TickStep) \div MsPerDay),
     ms |-> (t.ms + TickStep) % MsPerDay]

\* getNonce: Math.floor(time * Math.random()) is a whole number from 0 up to
\* the time in milliseconds; the sampled outcomes
NonceLow == 0
NonceHigh == 1660271111

\* sampled calls of sendSMS: the arguments a and the outcome n of getNonce
SendSamples ==
    {[a |-> [phoneNumbers |-> ArrVal(<<StrVal(Str("15135654070"))>>),
             signName |-> StrVal(<<39640, 36828, 25163, 26426>>),
             tplCode |-> StrVal(Str("SMS_8170249")),
             tplParam |-> StrVal(Str("{\"customer\": \"kouler\"}"))],
      n |-> NonceHigh],
     [a |-> [phoneNumbers |-> ArrVal(<<StrVal(Str("15135654070")),
                                       StrVal(Str("13912345678"))>>),
             signName |-> StrVal(Str("Sign*Name")),
             tplCode |-> StrVal(Str("SMS_1")),
             tplParam |-> Undefined],
      n |-> NonceLow]}

\* sampled calls of querySendDetails
QuerySamples ==
    {[a |-> [phoneNumber |-> StrVal(Str("15135654070")),
             sendDate |-> StrVal(Str("20220812")),
             pageSize |-> NumVal(1),
             currentPage |-> NumVal(1),
             bizID |-> Undefined],
      n |-> NonceLow],
     [a |-> [phoneNumber |-> StrVal(Str("13912345678")),
             sendDate |-> StrVal(Str("20220813")),
             pageSize |-> NumVal(10),
             currentPage |-> NumVal(2),
             bizID |-> StrVal(Str("900619746936498440^0"))],
      n |-> NonceHigh]}

\* const params of sendSMS
SendSMSParams(keyID, a, timestamp, n) ==
    << <<Str("AccessKeyId"), StrVal(keyID)>>,
       <<Str("Action"), StrVal(Str("SendSms"))>>,
       <<Str("Format"), StrVal(format)>>,
       <<Str("Version"), StrVal(version)>>,
       <<Str("Timestamp"), StrVal(timestamp)>>,
       <<Str("SignatureNonce"), NumVal(n)>>,
       <<Str("SignatureMethod"), StrVal(signatureMethod)>>,
       <<Str("SignatureVersion"), StrVal(signatureVersion)>>,
       <<Str("PhoneNumbers"), a.phoneNumbers>>,
       <<Str("SignName"), a.signName>>,
       <<Str("TemplateCode"), a.tplCode>> >>
    \o (IF Truthy(a.tplParam) THEN << <<Str("TemplateParam"), a.tplParam>> >> ELSE <<>>)

\* const params of querySendDetails
QuerySendDetailsParams(keyID, a, timestamp, n) ==
    << <<Str("AccessKeyId"), StrVal(keyID)>>,
       <<Str("Action"), StrVal(Str("QuerySendDetails"))>>,
       <<Str("Format"), StrVal(format)>>,
       <<Str("Version"), StrVal(version)>>,
       <<Str("Timestamp"), StrVal(timestamp)>>,
       <<Str("SignatureNonce"), NumVal(n)>>,
       <<Str("SignatureMethod"), StrVal(signatureMethod)>>,
       <<Str("SignatureVersion"), StrVal(signatureVersion)>>,
       <<Str("PhoneNumber"), a.phoneNumber>>,
       <<Str("SendDate"), a.sendDate>>,
       <<Str("PageSize"), a.pageSize>>,
       <<Str("CurrentPage"), a.currentPage>> >>
    \o (IF Truthy(a.bizID) THEN << <<Str("BizID"), a.bizID>> >> ELSE <<>>)

\* the URL given to fetch
RequestUrl(q, sig) ==
    endPoint \o Str("/?") \o q \o Str("&Signature=") \o encodeURIComponent(sig)

Return(v) == [kind |-> "return", value |-> v]
Throw(e) == [kind |-> "throw", error |-> e]
NoOutcome == [kind |-> "none"]

OK == StrVal(Str("OK"))

\* sendSMS from "if (result.Code !== 'OK')" on, with bizID in both branches
SendSMSReturnAlways(result) ==
    Return([code |-> Prop(result, "Code"),
            message |-> Prop(result, "Message"),
            requestID |-> Prop(result, "RequestId"),
            bizID |-> Prop(result, "BizId")])

\* sendSMS from "if (result.Code !== 'OK')" on
SendSMSReturn(result) ==
    IF Prop(result, "Code") # OK
    THEN Return([code |-> Prop(result, "Code"),
                 message |-> Prop(result, "Message"),
                 requestID |-> Prop(result, "RequestId")])
    ELSE Return([code |-> Prop(result, "Code"),
                 message |-> Prop(result, "Message"),
                 requestID |-> Prop(result, "RequestId"),
                 bizID |-> Prop(result, "BizId")])

\* the callback of detailsDTO.map with sendDate and receiveDate exchanged
MapDetailSwapped(v) ==
    [templateCode |-> Prop(v, "TemplateCode"),
     receiveDate |-> Prop(v, "SendDate"),
     phoneNum |-> Prop(v, "PhoneNum"),
     content |-> Prop(v, "Content"),
     sendDate |-> Prop(v, "ReceiveDate"),
     sendStatus |-> Prop(v, "SendStatus"),
     errCode |-> Prop(v, "ErrCode")]

\* the callback of detailsDTO.map
MapDetail(v) ==
    [templateCode |-> Prop(v, "TemplateCode"),
     receiveDate |-> Prop(v, "ReceiveDate"),
     phoneNum |-> Prop(v, "PhoneNum"),
     content |-> Prop(v, "Content"),
     sendDate |-> Prop(v, "SendDate"),
     sendStatus |-> Prop(v, "SendStatus"),
     errCode |-> Prop(v, "ErrCode")]

\* querySendDetails from "if (result.Code !== 'OK')" on; reading a property
\* of undefined and calling undefined.map throw TypeError
QuerySendDetailsReturn(result) ==
    IF Prop(result, "Code") # OK
    THEN Return([code |-> Prop(result, "Code"),
                 message |-> Prop(result, "Message"),
                 requestID |-> Prop(result, "RequestId")])
    ELSE IF Prop(result, "SmsSendDetailDTOs") = Undefined
         THEN Throw("TypeError")
    ELSE LET detailsDTO == Prop(Prop(result, "SmsSendDetailDTOs"), "SmsSendDetailDTO")
         IN IF detailsDTO.t # "arr"
            THEN Throw("TypeError")
            ELSE Return([code |-> Prop(result, "Code"),
                         message |-> Prop(result, "Message"),
                         requestID |-> Prop(result, "RequestId"),
                         totalCount |-> Prop(result, "TotalCount"),
                         smsSendDetailDTOs |->
                            [smsSendDetailDTO |->
                                [i \in 1..Len(detailsDTO.a) |-> MapDetail(detailsDTO.a[i])]]])

---------------------------------------------------------------------------
(* Responses of the service *)

JsonBody(v) == [kind |-> "json", body |-> v]
NotJson == [kind |-> "text"]
NoResponse == [kind |-> "none"]

\* the i-th sampled detail record
DetailSample(i) ==
    ObjVal([TemplateCode |-> StrVal(Str("SMS_") \o Digits(i)),
            ReceiveDate |-> StrVal(Str("2022-08-12 10:00:0") \o Digits(i % 10)),
            PhoneNum |-> StrVal(Str("1513565407") \o Digits(i % 10)),
            Content |-> StrVal(Str("code ") \o Digits(i)),
            SendStatus |-> NumVal(3 - (i % 3)),
            SendDate |-> StrVal(Str("2022-08-12 09:59:5") \o Digits(i % 10)),
            ErrCode |-> StrVal(IF i % 3 = 1 THEN Str("FAILED") ELSE Str("DELIVERED"))])

DetailList(n) == ArrVal([i \in 1..n |-> DetailSample(i)])

SendResponses ==
    {JsonBody(ObjVal([Code |-> OK, Message |-> OK,
                      RequestId |-> StrVal(Str("r1")), BizId |-> StrVal(Str("b1"))])),
     JsonBody(ObjVal([Code |-> StrVal(Str("isv.BUSINESS_LIMIT_CONTROL")),
                      Message |-> StrVal(Str("limit")),
                      RequestId |-> StrVal(Str("r2")), BizId |-> StrVal(Str("b2"))])),
     JsonBody(ObjVal([Code |-> OK, Message |-> OK, RequestId |-> StrVal(Str("r3"))]))}

QueryResponses ==
    {JsonBody(ObjVal([Code |-> OK, Message |-> OK, RequestId |-> StrVal(Str("q") \o Digits(n)),
                      TotalCount |-> NumVal(n),
                      SmsSendDetailDTOs |-> ObjVal([SmsSendDetailDTO |-> DetailList(n)])]))
        : n \in {0, MaxDetails}}
    \cup
    {JsonBody(ObjVal([Code |-> StrVal(Str("isv.BUSINESS_LIMIT_CONTROL")),
                      Message |-> StrVal(Str("limit")),
                      RequestId |-> StrVal(Str("r2")),
                      TotalCount |-> NumVal(1),
                      SmsSendDetailDTOs |-> ObjVal([SmsSendDetailDTO |-> DetailList(1)])])),
     JsonBody(ObjVal([Code |-> OK, Message |-> OK, RequestId |-> StrVal(Str("r5")),
                      TotalCount |-> NumVal(0)])),
     JsonBody(ObjVal([Code |-> OK, Message |-> OK, RequestId |-> StrVal(Str("r6")),
                      TotalCount |-> NumVal(0),
                      SmsSendDetailDTOs |-> ObjVal([Other |-> NumVal(0)])]))}

Responses(o) == IF o = "sendSMS" THEN SendResponses ELSE QueryResponses

---------------------------------------------------------------------------
(* A call running alone *)

\* the clock after k advances
RECURSIVE ClockAt(_)
ClockAt(k) == IF k = 0 THEN StartClock ELSE ClockAfter(ClockAt(k - 1))

\* what operation o computes up to the fetch when it runs alone on a new
\* instance with arguments a, clock t and nonce n
SoloRun(o, a, t, n) ==
    LET params == IF o = "sendSMS"
                  THEN SendSMSParams(CtorAccessKeyID, a, getNowISOTime(t), n)
                  ELSE QuerySendDetailsParams(CtorAccessKeyID, a, getNowISOTime(t), n)
        q == specParams(params)
        s == stringToSign(GET, q)
        sig == hmac(s, CtorAccessKeySecret)
    IN [op |-> o, args |-> a, calledAt |-> t, nonce |-> n,
        paramsStr |-> q, strToSign |-> s, signature |-> sig, url |-> RequestUrl(q, sig)]

SoloRuns ==
    {SoloRun("sendSMS", i.a, ClockAt(k), i.n) : i \in SendSamples, k \in 0..MaxTicks}
    \cup
    {SoloRun("querySendDetails", i.a, ClockAt(k), i.n) :
        i \in QuerySamples, k \in 0..MaxTicks}

\* the strings to sign of the sampled calls at the sampled clock values
SignedStrings ==
    {stringToSign(GET, specParams(
        SendSMSParams(CtorAccessKeyID, i.a, getNowISOTime(ClockAt(k)), i.n)))
        : i \in SendSamples, k \in 0..MaxTicks}
    \cup
    {stringToSign(GET, specParams(
        QuerySendDetailsParams(CtorAccessKeyID, i.a, getNowISOTime(ClockAt(k)), i.n)))
        : i \in QuerySamples, k \in 0..MaxTicks}

\* their signatures under the secret of the instance, computed once
Signatures == [s \in SignedStrings |-> hmac(s, CtorAccessKeySecret)]

\* hmac(sign, secret), taken from Signatures where it is there
Signed(sign, secret) ==
    The({IF secret = CtorAccessKeySecret /\ sign \in DOMAIN t
         THEN t[sign] ELSE hmac(sign, secret) : t \in {Signatures}})

---------------------------------------------------------------------------
(* Spec: calls on one instance *)

\* the local variables of call c after it has returned or thrown
Gone == <<>>

Init ==
    /\ accessKeyID = CtorAccessKeyID
    /\ accessKeySecret = CtorAccessKeySecret
    /\ now = StartClock
    /\ ticks = 0
    /\ pc = [c \in Calls |-> "idle"]
    /\ op = [c \in Calls |-> "none"]
    /\ args = [c \in Calls |-> <<>>]
    /\ calledAt = [c \in Calls |-> <<>>]
    /\ nonce = [c \in Calls |-> 0]
    /\ paramsStr = [c \in Calls |-> <<>>]
    /\ strToSign = [c \in Calls |-> <<>>]
    /\ signature = [c \in Calls |-> <<>>]
    /\ url = [c \in Calls |-> <<>>]
    /\ resp = [c \in Calls |-> NoResponse]
    /\ outcome = [c \in Calls |-> NoOutcome]
    /\ logged = [c \in Calls |-> FALSE]
    /\ SignOff
    /\ HmacOff

\* call c returns or throws: its arguments and local variables go away
\* (op, resp and outcome stay as the record of what was answered)
Leave(c) ==
    /\ args' = [args EXCEPT ![c] = Gone]
    /\ calledAt' = [calledAt EXCEPT ![c] = Gone]
    /\ nonce' = [nonce EXCEPT ![c] = 0]
    /\ paramsStr' = [paramsStr EXCEPT ![c] = Gone]
    /\ strToSign' = [strToSign EXCEPT ![c] = Gone]
    /\ signature' = [signature EXCEPT ![c] = Gone]
    /\ url' = [url EXCEPT ![c] = Gone]

\* the system clock advances
Tick ==
    /\ ticks < MaxTicks
    /\ ticks' = ticks + 1
    /\ now' = ClockAfter(now)
    /\ UNCHANGED <<instVars, callVars, signVars, hmacVars>>

\* sendSMS up to "await this.hmac(strToSign, this.accessKeySecret)";
\* calls are numbered in the order they are made
sendSMS(c, a, n) ==
    /\ pc[c] = "idle"
    /\ \A d \in Calls : d < c => pc[d] # "idle"
    /\ LET params == SendSMSParams(accessKeyID, a, getNowISOTime(now), n)
           q == specParams(params)
       IN /\ paramsStr' = [paramsStr EXCEPT ![c] = q]
          /\ strToSign' = [strToSign EXCEPT ![c] = stringToSign(GET, q)]
    /\ op' = [op EXCEPT ![c] = "sendSMS"]
    /\ args' = [args EXCEPT ![c] = a]
    /\ calledAt' = [calledAt EXCEPT ![c] = now]
    /\ nonce' = [nonce EXCEPT ![c] = n]
    /\ pc' = [pc EXCEPT ![c] = "hmac"]
    /\ UNCHANGED <<signature, url, resp, outcome, logged>>
    /\ UNCHANGED <<instVars, clockVars, signVars, hmacVars>>

\* querySendDetails up to "await this.hmac(strToSign, this.accessKeySecret)"
querySendDetails(c, a, n) ==
    /\ pc[c] = "idle"
    /\ \A d \in Calls : d < c => pc[d] # "idle"
    /\ LET params == QuerySendDetailsParams(accessKeyID, a, getNowISOTime(now), n)
           q == specParams(params)
       IN /\ paramsStr' = [paramsStr EXCEPT ![c] = q]
          /\ strToSign' = [strToSign EXCEPT ![c] = stringToSign(GET, q)]
    /\ op' = [op EXCEPT ![c] = "querySendDetails"]
    /\ args' = [args EXCEPT ![c] = a]
    /\ calledAt' = [calledAt EXCEPT ![c] = now]
    /\ nonce' = [nonce EXCEPT ![c] = n]
    /\ pc' = [pc EXCEPT ![c] = "hmac"]
    /\ UNCHANGED <<signature, url, resp, outcome, logged>>
    /\ UNCHANGED <<instVars, clockVars, signVars, hmacVars>>

\* HmacResolved with paramsStr and strToSign kept in one place for all calls:
\* the values read are those of any call under way
HmacResolvedShared(c) ==
    /\ pc[c] = "hmac"
    /\ \E d \in Calls :
          /\ pc[d] \in {"hmac", "fetch", "json"}
          /\ LET sig == Signed(strToSign[d], accessKeySecret)
             IN /\ signature' = [signature EXCEPT ![c] = sig]
                /\ url' = [url EXCEPT ![c] = RequestUrl(paramsStr[d], sig)]
    /\ pc' = [pc EXCEPT ![c] = "fetch"]
    /\ UNCHANGED <<op, args, calledAt, nonce, paramsStr, strToSign, resp, outcome, logged>>
    /\ UNCHANGED <<instVars, clockVars, signVars, hmacVars>>

\* hmac resolves: const signature, const url, then "await fetch(url, ...)"
HmacResolved(c) ==
    /\ pc[c] = "hmac"
    /\ LET sig == Signed(strToSign[c], accessKeySecret)
       IN /\ signature' = [signature EXCEPT ![c] = sig]
          /\ url' = [url EXCEPT ![c] = RequestUrl(paramsStr[c], sig)]
    /\ pc' = [pc EXCEPT ![c] = "fetch"]
    /\ UNCHANGED <<op, args, calledAt, nonce, paramsStr, strToSign, resp, outcome, logged>>
    /\ UNCHANGED <<instVars, clockVars, signVars, hmacVars>>

\* fetch resolves once the response has started: const resp, then
\* "await resp.json()", which reads the body
FetchResolved(c) ==
    /\ pc[c] = "fetch"
    /\ pc' = [pc EXCEPT ![c] = "json"]
    /\ UNCHANGED <<op, args, calledAt, nonce, paramsStr, strToSign, signature, url,
                   resp, outcome, logged>>
    /\ UNCHANGED <<instVars, clockVars, signVars, hmacVars>>

\* fetch rejects (transport failure): the call rejects
FetchRejected(c) ==
    /\ pc[c] = "fetch"
    /\ outcome' = [outcome EXCEPT ![c] = Throw("TransportFailure")]
    /\ pc' = [pc EXCEPT ![c] = "rejected"]
    /\ Leave(c)
    /\ UNCHANGED <<op, resp, logged>>
    /\ UNCHANGED <<instVars, clockVars, signVars, hmacVars>>

\* resp.json() resolves on the body r: const result, the rest of the operation
JsonResolved(c, r) ==
    /\ pc[c] = "json"
    /\ resp' = [resp EXCEPT ![c] = r]
    /\ LET result == r.body
           out == IF op[c] = "sendSMS" THEN SendSMSReturn(result)
                  ELSE QuerySendDetailsReturn(result)
       IN /\ outcome' = [outcome EXCEPT ![c] = out]
          /\ pc' = [pc EXCEPT ![c] = IF out.kind = "return" THEN "resolved" ELSE "rejected"]
          /\ logged' = [logged EXCEPT ![c] = Prop(result, "Code") # OK]
    /\ Leave(c)
    /\ UNCHANGED op
    /\ UNCHANGED <<instVars, clockVars, signVars, hmacVars>>

\* resp.json() rejects (the body is not JSON): the call rejects
JsonRejected(c) ==
    /\ pc[c] = "json"
    /\ resp' = [resp EXCEPT ![c] = NotJson]
    /\ outcome' = [outcome EXCEPT ![c] = Throw("SyntaxError")]
    /\ pc' = [pc EXCEPT ![c] = "rejected"]
    /\ Leave(c)
    /\ UNCHANGED <<op, logged>>
    /\ UNCHANGED <<instVars, clockVars, signVars, hmacVars>>

Next ==
    \/ Tick
    \/ \E c \in Calls, i \in SendSamples : sendSMS(c, i.a, i.n)
    \/ \E c \in Calls, i \in QuerySamples : querySendDetails(c, i.a, i.n)
    \/ \E c \in Calls : HmacResolved(c)
    \/ \E c \in Calls : FetchResolved(c)
    \/ \E c \in Calls : FetchRejected(c)
    \/ \E c \in Calls : \E r \in Responses(op[c]) : JsonResolved(c, r)
    \/ \E c \in Calls : JsonRejected(c)

Spec == Init /\ [][Next]_vars


---------------------------------------------------------------------------
(* Properties of the operations (Spec) *)

Done(c) == pc[c] \in {"resolved", "rejected"}
InFlight(c) == pc[c] \in {"hmac", "fetch", "json"}

C7_QueryResult ==
    \A c \in Calls :
        (op[c] = "querySendDetails" /\ Done(c) /\ resp[c].kind = "json") =>
            LET b == resp[c].body
                list == Prop(Prop(b, "SmsSendDetailDTOs"), "SmsSendDetailDTO")
            IN /\ Prop(b, "Code") # OK =>
                     /\ pc[c] = "resolved"
                     /\ "totalCount" \notin DOMAIN outcome[c].value
                     /\ "smsSendDetailDTOs" \notin DOMAIN outcome[c].value
               /\ (Prop(b, "Code") = OK /\ list.t = "arr") =>
                     /\ pc[c] = "resolved"
                     /\ LET details == outcome[c].value.smsSendDetailDTOs.smsSendDetailDTO
                        IN /\ Len(details) = Len(list.a)
                           /\ \A i \in 1..Len(list.a) :
                                 /\ details[i].templateCode = Prop(list.a[i], "TemplateCode")
                                 /\ details[i].receiveDate = Prop(list.a[i], "ReceiveDate")
                                 /\ details[i].phoneNum = Prop(list.a[i], "PhoneNum")
                                 /\ details[i].content = Prop(list.a[i], "Content")
                                 /\ details[i].sendStatus = Prop(list.a[i], "SendStatus")
                                 /\ details[i].sendStatus.t = "num"
                                 /\ details[i].sendDate = Prop(list.a[i], "SendDate")
                                 /\ details[i].errCode = Prop(list.a[i], "ErrCode")

\* a query resolved with at least two details of different status, another
\* resolved on a rejection whose body carries a list
C7_Witness ==
    \E c, d \in Calls :
        /\ op[c] = "querySendDetails" /\ pc[c] = "resolved"
        /\ outcome[c].value.code = OK
        /\ Len(outcome[c].value.smsSendDetailDTOs.smsSendDetailDTO) >= 2
        /\ outcome[c].value.smsSendDetailDTOs.smsSendDetailDTO[1].sendStatus
             # outcome[c].value.smsSendDetailDTOs.smsSendDetailDTO[2].sendStatus
        /\ op[d] = "querySendDetails" /\ pc[d] = "resolved"
        /\ outcome[d].value.code # OK
        /\ Prop(resp[d].body, "TotalCount") = NumVal(1)

\* C8: a call fails only on a transport failure or a body that is not JSON;
\* a JSON body with Code OK that lacks BizId or the detail list still resolves.
C8_OnlyTransportFailures ==
    \A c \in Calls :
        /\ pc[c] = "rejected" => outcome[c].error \in {"TransportFailure", "SyntaxError"}
        /\ (Done(c) /\ resp[c].kind = "json") => pc[c] = "resolved"

\* C9: whatever the other calls do, a call under way holds what it computes
\* when running alone with its arguments, clock and nonce, the URL it sends
\* carries the signature of its own string to sign, a finished call holds
\* the result mapped from its own response, and the credentials stay those
\* given to the constructor.
C9_NoInterference ==
    /\ accessKeyID = CtorAccessKeyID
    /\ accessKeySecret = CtorAccessKeySecret
    /\ \A c \in Calls :
          /\ InFlight(c) =>
                \E r \in SoloRuns :
                    /\ r.op = op[c] /\ r.args = args[c]
                    /\ r.calledAt = calledAt[c] /\ r.nonce = nonce[c]
                    /\ paramsStr[c] = r.paramsStr
                    /\ strToSign[c] = r.strToSign
                    /\ pc[c] \in {"fetch", "json"} =>
                          /\ signature[c] = r.signature
                          /\ url[c] = r.url
          /\ Done(c) =>
                outcome[c] =
                    CASE resp[c].kind = "none" -> Throw("TransportFailure")
                      [] resp[c].kind = "text" -> Throw("SyntaxError")
                      [] resp[c].kind = "json" ->
                            IF op[c] = "sendSMS" THEN SendSMSReturn(resp[c].body)
                            ELSE QuerySendDetailsReturn(resp[c].body)

\* two different operations under way at once, called at different times,
\* both with their request sent
C9_Witness ==
    \E c, d \in Calls :
        /\ pc[c] = "fetch" /\ pc[d] = "json"
        /\ op[c] # op[d]
        /\ calledAt[c] # calledAt[d]
        /\ url[c] # url[d]
        /\ signature[c] # signature[d]

\* the decoded value of the pair Timestamp of a canonical query string
TimestampOf(q) ==
    LET pairs == PairsOf(q)
        i == CHOOSE j \in 1..Len(pairs) : PairKey(pairs[j]) = Str("Timestamp")
    IN PercentDecode(PairValue(pairs[i]))

\* the number written by the digits s
RECURSIVE ParseNat(_)
ParseNat(s) ==
    IF s = <<>> THEN 0 ELSE 10 * ParseNat(SubSeq(s, 1, Len(s) - 1)) + (s[Len(s)] - 48)

\* day number of a date of the proleptic Gregorian calendar
DaysFromCivil(y, m, d) ==
    LET yy == IF m <= 2 THEN y - 1 ELSE y
        era == yy \div 400
        yoe == yy - era * 400
        doy == ((153 * (IF m > 2 THEN m - 3 ELSE m + 9) + 2) \div 5) + d - 1
        doe == yoe * 365 + (yoe \div 4) - (yoe \div 100) + doy
    IN era * 146097 + doe - 719468

AllDigits(s) == \A i \in 1..Len(s) : IsDigit(s[i])

\* ts is the instant t written as YYYY-MM-DDTHH:MM:SSZ
IsSecondsTimestamp(ts, t) ==
    /\ Len(ts) = 20
    /\ ts[5] = 45 /\ ts[8] = 45 /\ ts[11] = 84 /\ ts[14] = 58 /\ ts[17] = 58 /\ ts[20] = 90
    /\ AllDigits(SubSeq(ts, 1, 4)) /\ AllDigits(SubSeq(ts, 6, 7))
    /\ AllDigits(SubSeq(ts, 9, 10)) /\ AllDigits(SubSeq(ts, 12, 13))
    /\ AllDigits(SubSeq(ts, 15, 16)) /\ AllDigits(SubSeq(ts, 18, 19))
    /\ DaysFromCivil(ParseNat(SubSeq(ts, 1, 4)), ParseNat(SubSeq(ts, 6, 7)),
                     ParseNat(SubSeq(ts, 9, 10))) = t.day
    /\ (ParseNat(SubSeq(ts, 12, 13)) * 60 + ParseNat(SubSeq(ts, 15, 16))) * 60
          + ParseNat(SubSeq(ts, 18, 19)) = t.ms \div 1000

\* ts is the instant t written as YYYY-MM-DDTHH:MM:SS.sssZ
IsMillisecondsTimestamp(ts, t) ==
    /\ Len(ts) = 24
    /\ ts[20] = 46
    /\ AllDigits(SubSeq(ts, 21, 23))
    /\ ParseNat(SubSeq(ts, 21, 23)) = t.ms % 1000
    /\ IsSecondsTimestamp(SubSeq(ts, 1, 19) \o <<90>>, t)

\* the query string a string to sign is over
DecodeSigned(s) == PercentDecode(SubSeq(s, Len(GET) + 6, Len(s)))

\* the query string of a URL, without the pair Signature
DecodeUrl(u) ==
    LET q == SubSeq(u, Len(endPoint) + 3, Len(u))
        i == CHOOSE j \in 1..Len(q) : SubSeq(q, j, j + 10) = Str("&Signature=")
    IN SubSeq(q, 1, i - 1)

\* DecodeSigned, DecodeUrl and TimestampOf on the strings of the calls running
\* alone, computed once
SignedQueries == [s \in {r.strToSign : r \in SoloRuns} |-> DecodeSigned(s)]
UrlQueries == [u \in {r.url : r \in SoloRuns} |-> DecodeUrl(u)]
Timestamps == [q \in {r.paramsStr : r \in SoloRuns} |-> TimestampOf(q)]

SignedQuery(c) ==
    IF strToSign[c] \in DOMAIN SignedQueries THEN SignedQueries[strToSign[c]]
    ELSE DecodeSigned(strToSign[c])

UrlQuery(c) ==
    IF url[c] \in DOMAIN UrlQueries THEN UrlQueries[url[c]]
    ELSE DecodeUrl(url[c])

Timestamp(q) ==
    IF q \in DOMAIN Timestamps THEN Timestamps[q] ELSE TimestampOf(q)

\* C10 as stated: the Timestamp of a request is the clock at the call with
\* second precision, the same in the string to sign and in the URL.
C10_SecondPrecision ==
    \A c \in Calls :
        /\ InFlight(c) =>
              /\ IsSecondsTimestamp(Timestamp(SignedQuery(c)), calledAt[c])
              /\ SignedQuery(c) = paramsStr[c]
        /\ pc[c] \in {"fetch", "json"} =>
              /\ IsSecondsTimestamp(Timestamp(UrlQuery(c)), calledAt[c])
              /\ UrlQuery(c) = paramsStr[c]

\* C10 amended: the Timestamp of a request is the clock at the call with
\* millisecond precision (YYYY-MM-DDTHH:MM:SS.sssZ), the same in the string
\* to sign and in the URL, also when the clock has advanced since the call.
C10_MillisecondPrecision ==
    \A c \in Calls :
        /\ InFlight(c) =>
              /\ IsMillisecondsTimestamp(Timestamp(SignedQuery(c)), calledAt[c])
              /\ SignedQuery(c) = paramsStr[c]
        /\ pc[c] \in {"fetch", "json"} =>
              /\ IsMillisecondsTimestamp(Timestamp(UrlQuery(c)), calledAt[c])
              /\ UrlQuery(c) = paramsStr[c]

\* a request sent for a call made before the clock advanced, and one for a
\* call made at an instant with a fraction of a second
C10_Witness ==
    \E c, d \in Calls :
        /\ pc[c] = "fetch" /\ calledAt[c] # now
        /\ pc[d] = "fetch" /\ calledAt[d].ms % 1000 # 0

=============================================================================
